---- MODULE Spec2Model ----
(***************************************************************************)
(* Model of the stream iterator of gfoust/stream-iterator.                 *)
(*                                                                         *)
(* Two header variants exist: input::StreamIterator (src/input/input.hpp)  *)
(* and cgf::IstreamIterator (src/unnamed/part_000).  They differ only in   *)
(* operator++ (softCommit against hardCommit); the variable `variant`      *)
(* selects which one a behaviour runs.  The bound std::istream is modelled *)
(* at character level with its eofbit and failbit, T = int.                *)
(***************************************************************************)
EXTENDS Integers, Sequences, FiniteSets, TLC

\* ---------------------------------------------------------------- bounds
MaxLen == 3        \* longest source, in characters, under Spec and StopSpec
MaxLoopLen == 5    \* longest source, in characters, under LoopSpec
MaxAdv == 3        \* cap on the number of advance calls in a behaviour
MaxCount == 3      \* largest n of an untilCount(n) cursor

Alphabet == {"1", "2", " ", "x"}
Digits == {"1", "2"}
Variants == {"input", "cgf"}

None == [kind |-> "None"]

\* ---------------------------------------------------------------- cursors
\* std::variant<Eof, Count, Sentinel, InputState> _impl
EofC == [kind |-> "Eof"]
CountC(n) == [kind |-> "Count", value |-> n]
SentinelC(v) == [kind |-> "Sentinel", value |-> v]
InputState(in, count, valid, value) ==
  [kind |-> "InputState", in |-> in, count |-> count, valid |-> valid, value |-> value]

\* explicit IstreamIterator(std::istream& in) : _impl{ InputState{ &in, 0, false, {} } }
scan(in) == InputState(in, 0, FALSE, 0)
untilCount(n) == CountC(n)
untilSentinel(v) == SentinelC(v)
untilEof == EofC

SentinelVals == {1, 2}
Stops == {untilEof} \cup {untilCount(n) : n \in 0..MaxCount}
           \cup {untilSentinel(v) : v \in SentinelVals}

\* ---------------------------------------------------------------- the stream
SourcesUpTo(len) == UNION {[1..n -> Alphabet] : n \in 0..len}

DigitVal(c) == IF c = "1" THEN 1 ELSE 2

RECURSIVE SkipWs(_)
SkipWs(b) == IF b # <<>> /\ Head(b) = " " THEN SkipWs(Tail(b)) ELSE b

RECURSIVE DigitLen(_)
DigitLen(b) == IF b # <<>> /\ Head(b) \in Digits THEN 1 + DigitLen(Tail(b)) ELSE 0

RECURSIVE ParseInt(_, _)
ParseInt(ds, acc) ==
  IF ds = <<>> THEN acc ELSE ParseInt(Tail(ds), 10 * acc + DigitVal(Head(ds)))

\* *state.in >> state.value for T = int: the sentry fails on a stream that is
\* not good() or that ends while skipping whitespace and leaves the value
\* alone; num_get stores 0 when no digit is found and sets eofbit when the
\* digits run up to the end of the input.
Extract(s, old) ==
  IF s.eofbit \/ s.failbit
  THEN [cin |-> [s EXCEPT !.failbit = TRUE, !.reads = @ + 1], value |-> old]
  ELSE LET b == SkipWs(s.buf) IN
       IF b = <<>>
       THEN [cin |-> [buf |-> b, eofbit |-> TRUE, failbit |-> TRUE, reads |-> s.reads + 1],
             value |-> old]
       ELSE LET n == DigitLen(b) IN
            IF n = 0
            THEN [cin |-> [buf |-> b, eofbit |-> FALSE, failbit |-> TRUE,
                           reads |-> s.reads + 1],
                  value |-> 0]
            ELSE [cin |-> [buf |-> SubSeq(b, n + 1, Len(b)), eofbit |-> (n = Len(b)),
                           failbit |-> FALSE, reads |-> s.reads + 1],
                  value |-> ParseInt(SubSeq(b, 1, n), 0)]

\* ---------------------------------------------------------------- commits
\* softCommit without the test of state.valid
softCommitAlways(st, s) ==
  LET e == Extract(s, st.value) IN
  [st |-> [st EXCEPT !.valid = TRUE, !.value = e.value], cin |-> e.cin]

softCommit(st, s) ==
  IF ~st.valid
  THEN LET e == Extract(s, st.value) IN
       [st |-> [st EXCEPT !.valid = TRUE, !.value = e.value], cin |-> e.cin]
  ELSE [st |-> st, cin |-> s]

\* hardCommit testing the stream only when it has just read
hardCommitChecksOnRead(st, s) ==
  LET c == softCommit(st, s) IN
  [st |-> c.st, cin |-> c.cin,
   out |-> IF ~st.valid /\ c.cin.failbit THEN "failure" ELSE "ok",
   value |-> c.st.value]

\* throws std::istream::failure("input failure") when the stream has failed
hardCommit(st, s) ==
  LET c == softCommit(st, s) IN
  [st |-> c.st, cin |-> c.cin, out |-> IF c.cin.failbit THEN "failure" ELSE "ok",
   value |-> c.st.value]

\* ---------------------------------------------------------------- operators
\* Every operator yields [out, val, eq, x, y, cin]: the outcome ("ok" or the
\* exception thrown), the value_type or the bool returned, the cursor operands
\* afterwards and the stream afterwards.
Result(out, val, x, y, s) ==
  [out |-> out, val |-> val, eq |-> FALSE, x |-> x, y |-> y, cin |-> s]

BoolResult(out, eq, x, y, s) ==
  [out |-> out, val |-> 0, eq |-> eq, x |-> x, y |-> y, cin |-> s]

\* operator * handing out the payload of a sentinel
DerefStopPayload(c, s) ==
  IF c.kind = "Sentinel" THEN Result("ok", c.value, c, None, s)
  ELSE IF c.kind # "InputState" THEN Result("bad_variant_access", 0, c, None, s)
  ELSE LET h == hardCommit(c, s) IN Result(h.out, h.value, h.st, None, h.cin)

\* reference operator *() const
Deref(c, s) ==
  IF c.kind # "InputState" THEN Result("bad_variant_access", 0, c, None, s)
  ELSE LET h == hardCommit(c, s) IN Result(h.out, h.value, h.st, None, h.cin)

\* the commit of operator++ reading whether or not a value is cached
IncrCommitAlways(v, st, s) ==
  LET c == softCommitAlways(st, s) IN
  [st |-> c.st, cin |-> c.cin,
   out |-> IF v = "cgf" /\ c.cin.failbit THEN "failure" ELSE "ok",
   value |-> c.st.value]

\* the commit operator++ performs: softCommit in input::StreamIterator,
\* hardCommit in cgf::IstreamIterator
IncrCommit(v, st, s) ==
  IF v = "cgf" THEN hardCommit(st, s)
  ELSE LET c == softCommit(st, s) IN
       [st |-> c.st, cin |-> c.cin, out |-> "ok", value |-> c.st.value]

\* operator ++ without state.valid = false
IncrKeepsValid(v, c, s) ==
  IF c.kind # "InputState" THEN Result("bad_variant_access", 0, c, None, s)
  ELSE LET h == IncrCommit(v, c, s) IN
       IF h.out # "ok" THEN Result(h.out, 0, h.st, None, h.cin)
       ELSE Result("ok", 0, [h.st EXCEPT !.count = @ + 1], None, h.cin)

\* IstreamIterator& operator ++()
Incr(v, c, s) ==
  IF c.kind # "InputState" THEN Result("bad_variant_access", 0, c, None, s)
  ELSE LET h == IncrCommit(v, c, s) IN
       IF h.out # "ok" THEN Result(h.out, 0, h.st, None, h.cin)
       ELSE Result("ok", 0, [h.st EXCEPT !.count = @ + 1, !.valid = FALSE], None, h.cin)

\* operator ++(int) counting on a Count cursor instead of throwing
PostIncrCountsStop(v, c, s) ==
  IF c.kind = "Count" THEN Result("ok", 0, [c EXCEPT !.value = @ + 1], c, s)
  ELSE IF c.kind # "InputState" THEN Result("bad_variant_access", 0, c, None, s)
  ELSE LET h == IncrCommit(v, c, s) IN
       IF h.out # "ok" THEN Result(h.out, 0, h.st, None, h.cin)
       ELSE Result("ok", 0, [h.st EXCEPT !.count = @ + 1, !.valid = FALSE], h.st, h.cin)

\* operator ++(int) returning the advanced cursor, as the prefix form does
PostIncrReturnsAdvanced(v, c, s) ==
  IF c.kind # "InputState" THEN Result("bad_variant_access", 0, c, None, s)
  ELSE LET h == IncrCommit(v, c, s) IN
       IF h.out # "ok" THEN Result(h.out, 0, h.st, None, h.cin)
       ELSE Result("ok", 0, [h.st EXCEPT !.count = @ + 1, !.valid = FALSE],
                   [h.st EXCEPT !.count = @ + 1, !.valid = FALSE], h.cin)

\* IstreamIterator operator ++(int): y is the copy returned
PostIncr(v, c, s) ==
  IF c.kind # "InputState" THEN Result("bad_variant_access", 0, c, None, s)
  ELSE LET h == IncrCommit(v, c, s) IN
       IF h.out # "ok" THEN Result(h.out, 0, h.st, None, h.cin)
       ELSE Result("ok", 0, [h.st EXCEPT !.count = @ + 1, !.valid = FALSE], h.st, h.cin)

\* operator == of the strong types Eof, Count and Sentinel
EofEq(a, b) == TRUE
CountEq(a, b) == a.value = b.value
SentinelEq(a, b) == a.value = b.value

\* operator != of the strong types Eof, Count and Sentinel
EofNe(a, b) == TRUE
CountNe(a, b) == a.value # b.value
SentinelNe(a, b) == a.value # b.value

\* a == b and a != b for two values of one strong type
StrongEq(a, b) ==
  CASE a.kind = "Eof" -> EofEq(a, b)
    [] a.kind = "Count" -> CountEq(a, b)
    [] a.kind = "Sentinel" -> SentinelEq(a, b)

StrongNe(a, b) ==
  CASE a.kind = "Eof" -> EofNe(a, b)
    [] a.kind = "Count" -> CountNe(a, b)
    [] a.kind = "Sentinel" -> SentinelNe(a, b)

\* the reader overload comparing the positions as well
EquivInputInputPosition(lhs, rhs, s) ==
  BoolResult("ok", lhs.in = rhs.in /\ lhs.count = rhs.count, lhs, rhs, s)

\* struct Equivalent: one operator per overload of operator ()
EquivInputInput(lhs, rhs, s) == BoolResult("ok", lhs.in = rhs.in, lhs, rhs, s)

\* the Sentinel overload with softCommit, comparing whatever value is there
EquivInputSentinelSoft(lhs, rhs, s) ==
  LET c == softCommit(lhs, s) IN
  BoolResult("ok", c.st.value = rhs.value, c.st, rhs, c.cin)

EquivInputSentinel(lhs, rhs, s) ==
  LET h == hardCommit(lhs, s) IN
  BoolResult(h.out, h.out = "ok" /\ h.value = rhs.value, h.st, rhs, h.cin)

EquivSentinelInput(lhs, rhs, s) ==
  LET h == hardCommit(rhs, s) IN
  BoolResult(h.out, h.out = "ok" /\ lhs.value = h.value, lhs, h.st, h.cin)

\* the Count overload one position late, and probing the stream like Eof
EquivInputCountLate(lhs, rhs, s) ==
  BoolResult("ok", lhs.count = rhs.value + 1, lhs, rhs, s)

EquivInputCountCommits(lhs, rhs, s) ==
  LET c == softCommit(lhs, s) IN
  BoolResult("ok", c.st.count = rhs.value, c.st, rhs, c.cin)

EquivInputCount(lhs, rhs, s) == BoolResult("ok", lhs.count = rhs.value, lhs, rhs, s)

EquivCountInput(lhs, rhs, s) == BoolResult("ok", lhs.value = rhs.count, lhs, rhs, s)

\* the Eof overloads with hardCommit, and without any commit
EquivInputEofHard(lhs, rhs, s) ==
  LET h == hardCommit(lhs, s) IN BoolResult(h.out, h.cin.eofbit, h.st, rhs, h.cin)

EquivEofInputNoCommit(lhs, rhs, s) == BoolResult("ok", s.eofbit, lhs, rhs, s)

\* the Eof overload reading without keeping what it read
EquivInputEofDrops(lhs, rhs, s) ==
  LET c == softCommit(lhs, s) IN BoolResult("ok", c.cin.eofbit, lhs, rhs, c.cin)

EquivInputEof(lhs, rhs, s) ==
  LET c == softCommit(lhs, s) IN BoolResult("ok", c.cin.eofbit, c.st, rhs, c.cin)

EquivEofInput(lhs, rhs, s) ==
  LET c == softCommit(rhs, s) IN BoolResult("ok", c.cin.eofbit, lhs, c.st, c.cin)

\* template<typename U> bool operator ()(U const& lhs, U const& rhs)
EquivSame(lhs, rhs, s) ==
  BoolResult("ok",
         CASE lhs.kind = "Eof" -> EofEq(lhs, rhs)
           [] lhs.kind = "Count" -> CountEq(lhs, rhs)
           [] lhs.kind = "Sentinel" -> SentinelEq(lhs, rhs),
         lhs, rhs, s)

\* the catch-all overload comparing the payloads
EquivOtherPayload(lhs, rhs, s) ==
  BoolResult("ok", lhs.kind # "Eof" /\ rhs.kind # "Eof" /\ lhs.value = rhs.value, lhs, rhs, s)

\* template<typename U, typename V> bool operator ()(U const& lhs, V const& rhs)
EquivOther(lhs, rhs, s) == BoolResult("ok", FALSE, lhs, rhs, s)

\* std::visit(Equivalent{}, _impl, rhs._impl): the overload chosen for the
\* pair of alternatives held
Equivalent(lhs, rhs, s) ==
  CASE lhs.kind = "InputState" /\ rhs.kind = "InputState" -> EquivInputInput(lhs, rhs, s)
    [] lhs.kind = "InputState" /\ rhs.kind = "Sentinel" -> EquivInputSentinel(lhs, rhs, s)
    [] lhs.kind = "Sentinel" /\ rhs.kind = "InputState" -> EquivSentinelInput(lhs, rhs, s)
    [] lhs.kind = "InputState" /\ rhs.kind = "Count" -> EquivInputCount(lhs, rhs, s)
    [] lhs.kind = "Count" /\ rhs.kind = "InputState" -> EquivCountInput(lhs, rhs, s)
    [] lhs.kind = "InputState" /\ rhs.kind = "Eof" -> EquivInputEof(lhs, rhs, s)
    [] lhs.kind = "Eof" /\ rhs.kind = "InputState" -> EquivEofInput(lhs, rhs, s)
    [] lhs.kind = rhs.kind /\ lhs.kind # "InputState" -> EquivSame(lhs, rhs, s)
    [] OTHER -> EquivOther(lhs, rhs, s)

\* bool operator ==(IstreamIterator const& rhs)
Eq(lhs, rhs, s) == Equivalent(lhs, rhs, s)

\* bool operator !=(IstreamIterator const& rhs)
Negated(r) == [r EXCEPT !.eq = (r.out = "ok" /\ ~r.eq)]

Neq(lhs, rhs, s) == Negated(Equivalent(lhs, rhs, s))

\* ---------------------------------------------------------------- state
VARIABLES
  variant,   \* which header the behaviour runs: "input" or "cgf"
  src,       \* the characters the source held when the reader was bound
  cin,       \* the stream: [buf, eofbit, failbit, reads]; reads counts the >> calls
  it,        \* the cursor under test (sum1's begin, then p)
  copy,      \* the cursor returned by the last it++, or None
  end,       \* a stopping-condition cursor (sum1's end)
  ret,       \* the last call: operation, outcome, value returned, other operand
  calls,     \* number of ++ calls made on it, throwing ones included
  seen,      \* the first and the latest value *it returned since the last advance
  pc,        \* "free", or the position of sum1
  total,     \* sum1's accumulator
  visited    \* the values sum1 has added, in order

vars == <<variant, src, cin, it, copy, end, ret, calls, seen, pc, total, visited>>

\* arg: for a comparison, Lhs or Rhs (the side the first cursor named is on)
\* or the other stopping condition; None otherwise
Lhs == [kind |-> "lhs"]
Rhs == [kind |-> "rhs"]
Ret(op, arg, r) ==
  [op |-> op, arg |-> arg, out |-> r.out, val |-> r.val, eq |-> r.eq]

NoRet == [op |-> "none", arg |-> None, out |-> "ok", val |-> 0, eq |-> FALSE]

Stream(b) == [buf |-> b, eofbit |-> FALSE, failbit |-> FALSE, reads |-> 0]

InitCommon(len) ==
  /\ variant \in Variants
  /\ src \in SourcesUpTo(len)
  /\ cin = Stream(src)
  /\ it = scan("cin")
  /\ copy = None
  /\ end \in Stops
  /\ ret = NoRet
  /\ calls = 0
  /\ seen = <<>>
  /\ total = 0
  /\ visited = <<>>

Init ==
  /\ InitCommon(MaxLen)
  /\ pc = "free"

loopVars == <<pc, total, visited>>

\* *it
Current ==
  /\ pc = "free"
  /\ LET r == Deref(it, cin) IN
     /\ it' = r.x
     /\ cin' = r.cin
     /\ ret' = Ret("deref", None, r)
     /\ seen' = IF r.out # "ok" THEN seen
                ELSE IF seen = <<>> THEN <<r.val>> ELSE <<seen[1], r.val>>
  /\ UNCHANGED <<variant, src, copy, end, calls, loopVars>>

\* ++it
Advance ==
  /\ pc = "free"
  /\ calls < MaxAdv
  /\ LET r == Incr(variant, it, cin) IN
     /\ it' = r.x
     /\ cin' = r.cin
     /\ ret' = Ret("incr", None, r)
     /\ seen' = IF r.out = "ok" THEN <<>> ELSE seen
  /\ calls' = calls + 1
  /\ UNCHANGED <<variant, src, copy, end, loopVars>>

\* copy = it++
PostAdvance ==
  /\ pc = "free"
  /\ calls < MaxAdv
  /\ LET r == PostIncr(variant, it, cin) IN
     /\ it' = r.x
     /\ cin' = r.cin
     /\ copy' = IF r.out = "ok" THEN r.y ELSE copy
     /\ ret' = Ret("postincr", None, r)
     /\ seen' = IF r.out = "ok" THEN <<>> ELSE seen
  /\ calls' = calls + 1
  /\ UNCHANGED <<variant, src, end, loopVars>>

\* *copy
CurrentCopy ==
  /\ pc = "free"
  /\ copy.kind = "InputState"
  /\ LET r == Deref(copy, cin) IN
     /\ copy' = r.x
     /\ cin' = r.cin
     /\ ret' = Ret("derefcopy", None, r)
  /\ UNCHANGED <<variant, src, it, end, calls, seen, loopVars>>

\* it == end
CompareLeft ==
  /\ pc = "free"
  /\ LET r == Eq(it, end, cin) IN
     /\ it' = r.x
     /\ end' = r.y
     /\ cin' = r.cin
     /\ ret' = Ret("eq", Lhs, r)
  /\ UNCHANGED <<variant, src, copy, calls, seen, loopVars>>

\* end == it
CompareRight ==
  /\ pc = "free"
  /\ LET r == Eq(end, it, cin) IN
     /\ end' = r.x
     /\ it' = r.y
     /\ cin' = r.cin
     /\ ret' = Ret("eq", Rhs, r)
  /\ UNCHANGED <<variant, src, copy, calls, seen, loopVars>>

\* it == copy and copy == it
CompareReaders ==
  /\ pc = "free"
  /\ copy.kind = "InputState"
  /\ \/ LET r == Eq(it, copy, cin) IN
          /\ it' = r.x /\ copy' = r.y /\ cin' = r.cin
          /\ ret' = Ret("eqreaders", Lhs, r)
     \/ LET r == Eq(copy, it, cin) IN
          /\ copy' = r.x /\ it' = r.y /\ cin' = r.cin
          /\ ret' = Ret("eqreaders", Rhs, r)
  /\ UNCHANGED <<variant, src, end, calls, seen, loopVars>>

\* the streams a reader can be bound to; only "cin" is read in the model
Streams == {"cin", "cin2"}

\* it == scan(in) and scan(in) == it for a fresh reader on either stream
CompareOther ==
  /\ pc = "free"
  /\ \E in \in Streams :
       \/ LET r == Eq(it, scan(in), cin) IN
            /\ it' = r.x /\ cin' = r.cin
            /\ ret' = Ret("eqother", [kind |-> in], r)
       \/ LET r == Eq(scan(in), it, cin) IN
            /\ it' = r.y /\ cin' = r.cin
            /\ ret' = Ret("eqotherrev", [kind |-> in], r)
  /\ UNCHANGED <<variant, src, copy, end, calls, seen, loopVars>>

Next ==
  \/ Current
  \/ Advance
  \/ PostAdvance
  \/ CurrentCopy
  \/ CompareLeft
  \/ CompareRight
  \/ CompareReaders

Spec == Init /\ [][Next]_vars

\* ---------------------------------------------------------------- readers only
PairNext ==
  \/ Advance
  \/ PostAdvance
  \/ Current
  \/ CompareReaders
  \/ CompareOther

PairSpec == Init /\ [][PairNext]_vars

\* ---------------------------------------------------------------- stops only
\* end == y and y == end for a stopping condition y
CompareStops ==
  /\ pc = "free"
  /\ \E y \in Stops :
       \/ LET r == Eq(end, y, cin) IN
            end' = r.x /\ cin' = r.cin /\ ret' = Ret("eqstops", y, r)
       \/ LET r == Eq(y, end, cin) IN
            end' = r.y /\ cin' = r.cin /\ ret' = Ret("eqstopsrev", y, r)
  /\ UNCHANGED <<variant, src, it, copy, calls, seen, loopVars>>

\* *end
StopCurrent ==
  /\ pc = "free"
  /\ LET r == Deref(end, cin) IN
     end' = r.x /\ cin' = r.cin /\ ret' = Ret("stopderef", None, r)
  /\ UNCHANGED <<variant, src, it, copy, calls, seen, loopVars>>

\* ++end
StopAdvance ==
  /\ pc = "free"
  /\ LET r == Incr(variant, end, cin) IN
     end' = r.x /\ cin' = r.cin /\ ret' = Ret("stopincr", None, r)
  /\ UNCHANGED <<variant, src, it, copy, calls, seen, loopVars>>

\* end++
StopPostAdvance ==
  /\ pc = "free"
  /\ LET r == PostIncr(variant, end, cin) IN
     end' = r.x /\ cin' = r.cin /\ ret' = Ret("stoppostincr", None, r)
  /\ UNCHANGED <<variant, src, it, copy, calls, seen, loopVars>>

\* end == y and end != y on the strong types, for y of the type end holds
StrongCompare ==
  /\ pc = "free"
  /\ \E y \in {z \in Stops : z.kind = end.kind} :
       \/ ret' = [op |-> "strongeq", arg |-> y, out |-> "ok", val |-> 0,
                  eq |-> StrongEq(end, y)]
       \/ ret' = [op |-> "strongne", arg |-> y, out |-> "ok", val |-> 0,
                  eq |-> StrongNe(end, y)]
  /\ UNCHANGED <<variant, src, cin, it, copy, end, calls, seen, loopVars>>

\* end != y and y != end for a stopping condition y
CompareStopsNe ==
  /\ pc = "free"
  /\ \E y \in Stops :
       \/ LET r == Neq(end, y, cin) IN
            end' = r.x /\ cin' = r.cin /\ ret' = Ret("nestops", y, r)
       \/ LET r == Neq(y, end, cin) IN
            end' = r.y /\ cin' = r.cin /\ ret' = Ret("nestopsrev", y, r)
  /\ UNCHANGED <<variant, src, it, copy, calls, seen, loopVars>>

StopNext ==
  \/ CompareStops
  \/ CompareStopsNe
  \/ StrongCompare
  \/ StopCurrent
  \/ StopAdvance
  \/ StopPostAdvance
  \/ CompareLeft
  \/ CompareRight

StopSpec == Init /\ [][StopNext]_vars

\* ---------------------------------------------------------------- sum1
\* sum1(scan<int>(cin), end) of main.cpp, one step per iterator operation
LoopInit ==
  /\ InitCommon(MaxLoopLen)
  /\ pc = "first"

\* auto total = *begin++;
SumFirstDone(r, d) ==
  /\ it' = r.x
  /\ copy' = d.x
  /\ cin' = d.cin
  /\ ret' = Ret("derefcopy", None, d)
  /\ seen' = <<>>
  /\ pc' = IF d.out # "ok" THEN "threw" ELSE "test"
  /\ total' = IF d.out # "ok" THEN total ELSE d.val
  /\ visited' = IF d.out # "ok" THEN visited ELSE <<d.val>>

SumFirstThrew(r) ==
  /\ it' = r.x
  /\ cin' = r.cin
  /\ ret' = Ret("postincr", None, r)
  /\ pc' = "threw"
  /\ UNCHANGED <<copy, total, visited, seen>>

SumFirstStep(r) ==
  IF r.out # "ok" THEN SumFirstThrew(r)
  ELSE \E d \in {Deref(r.y, r.cin)} : SumFirstDone(r, d)

SumFirst ==
  /\ pc = "first"
  /\ \E r \in {PostIncr(variant, it, cin)} : SumFirstStep(r)
  /\ calls' = calls + 1
  /\ UNCHANGED <<variant, src, end>>

\* p != end
SumTestDone(r) ==
  /\ it' = r.x
  /\ end' = r.y
  /\ cin' = r.cin
  /\ ret' = Ret("neq", Lhs, r)
  /\ pc' = IF r.out # "ok" THEN "threw" ELSE IF r.eq THEN "body" ELSE "done"

SumTest ==
  /\ pc = "test"
  /\ \E r \in {Neq(it, end, cin)} : SumTestDone(r)
  /\ UNCHANGED <<variant, src, copy, calls, seen, total, visited>>

\* total += *p;
SumBody ==
  /\ pc = "body"
  /\ \E r \in {Deref(it, cin)} :
     /\ it' = r.x
     /\ cin' = r.cin
     /\ ret' = Ret("deref", None, r)
     /\ IF r.out # "ok"
        THEN pc' = "threw" /\ UNCHANGED <<total, visited, seen>>
        ELSE /\ pc' = "incr"
             /\ total' = total + r.val
             /\ visited' = Append(visited, r.val)
             /\ seen' = <<r.val>>
  /\ UNCHANGED <<variant, src, copy, end, calls>>

\* ++p
SumIncr ==
  /\ pc = "incr"
  /\ \E r \in {Incr(variant, it, cin)} :
     /\ it' = r.x
     /\ cin' = r.cin
     /\ ret' = Ret("incr", None, r)
     /\ pc' = IF r.out # "ok" THEN "threw" ELSE "test"
     /\ seen' = IF r.out = "ok" THEN <<>> ELSE seen
  /\ calls' = calls + 1
  /\ UNCHANGED <<variant, src, copy, end, total, visited>>

LoopNext ==
  \/ SumFirst
  \/ SumTest
  \/ SumBody
  \/ SumIncr

LoopSpec == LoopInit /\ [][LoopNext]_vars

\* sum1 is sequential code: it keeps running until it returns or throws
SentinelLoopInit ==
  /\ LoopInit
  /\ end.kind = "Sentinel"

LoopFairSpec == SentinelLoopInit /\ [][LoopNext]_vars /\ WF_vars(LoopNext)

\* ---------------------------------------------------------------- properties
\* the tokens formatted extraction finds in b, up to the first malformed one
RECURSIVE TokenList(_)
TokenList(b) ==
  LET w == SkipWs(b)
      n == DigitLen(w)
  IN IF n = 0 THEN <<>>
     ELSE <<ParseInt(SubSeq(w, 1, n), 0)>> \o TokenList(SubSeq(w, n + 1, Len(w)))

WellFormed(b) == \A i \in 1..Len(b) : b[i] # "x"

IsPrefix(p, q) == Len(p) <= Len(q) /\ SubSeq(q, 1, Len(p)) = p

\* C1: a reader advanced with ++ exactly n times (calls = n, whatever the
\* source holds) equals untilCount(n) and does not equal untilCount(n + 1).
C1_AdvancedNEqualsCountN ==
  pc = "free" =>
    /\ Equivalent(it, untilCount(calls), cin).eq
    /\ ~Equivalent(it, untilCount(calls + 1), cin).eq

\* C2: on a source whose tokens start a, b, s with a # s and b # s, sum1 up
\* to untilSentinel(s) never throws, visits a then b and nothing else, and has
\* visited exactly a, b when the comparison reports the match.
C2Case ==
  LET t == TokenList(src) IN
  /\ end.kind = "Sentinel"
  /\ Len(t) >= 3
  /\ t[3] = end.value /\ t[1] # t[3] /\ t[2] # t[3]

C2_SentinelLoopVisitsAB ==
  C2Case =>
    /\ pc # "threw"
    /\ IsPrefix(visited, SubSeq(TokenList(src), 1, 2))
    /\ pc = "done" => visited = SubSeq(TokenList(src), 1, 2) /\ ~ret.eq

C2_Witness == C2Case /\ pc = "done" /\ Len(visited) = 2

\* C3: on a well-formed source with at least one token, sum1 up to untilEof()
\* ends without throwing having visited every token of the source in order.
C3_EofLoopVisitsAll ==
  (end.kind = "Eof" /\ WellFormed(src) /\ TokenList(src) # <<>>
     /\ pc \in {"done", "threw"}) =>
    pc = "done" /\ visited = TokenList(src)

\* C4: ++it and it++ on an active reader never throw; they leave count
\* incremented (count = number of calls) and valid cleared.
C4_AdvanceNeverThrows ==
  ret.op \in {"incr", "postincr"} =>
    ret.out = "ok" /\ ~it.valid /\ it.count = calls

\* C5: for every pair of cursors x, y, x == y and y == x evaluated from the
\* same state give the same outcome and value and leave x, y and the stream
\* in the same state.
Cursors == Stops \cup {it} \cup (IF copy.kind = "InputState" THEN {copy} ELSE {})

Mirror(r) == [r EXCEPT !.x = r.y, !.y = r.x]

C5_EqualsSymmetric ==
  \A x \in Cursors, y \in Cursors :
    Equivalent(x, y, cin) = Mirror(Equivalent(y, x, cin))

C5_Witness ==
  /\ ret.op = "eq" /\ ret.arg = Rhs /\ end.kind = "Eof"
  /\ it.valid /\ cin.reads = 1 /\ ret.eq

\* C6: *it performs at most one extraction, and once *it has returned a
\* value, every *it before the next advance returns that value again and
\* leaves the stream untouched, whatever comparisons come in between.
C6_CurrentMemoized ==
  [][ret'.op = "deref" =>
       /\ cin'.reads <= cin.reads + 1
       /\ seen # <<>> => /\ ret'.out = "ok"
                         /\ ret'.val = seen[1]
                         /\ cin' = cin]_vars

C6_Witness == ret.op = "deref" /\ Len(seen) = 2 /\ ret.arg = None /\ cin.reads >= 1

\* C7: once the reader stands at a position for which the source has no
\* token (the stream has failed, or nothing is cached and no token is left),
\* it stays there, and every *it throws the input failure.
SourceExhausted ==
  cin.failbit \/ (~it.valid /\ TokenList(cin.buf) = <<>>)

C8_StopCallsThrow ==
  [][ret'.op \in {"stopderef", "stopincr", "stoppostincr"} =>
       ret'.out = "bad_variant_access" /\ cin' = cin /\ end' = end]_vars

C8_Witness ==
  ret.op = "stopincr" /\ ret.out = "bad_variant_access" /\ end.kind = "Count"

\* C9: comparing two stopping conditions never throws and reads nothing; it
\* is true exactly when both hold the same variant with the same payload.
C9_StopsCompare ==
  [][ret'.op \in {"eqstops", "eqstopsrev"} =>
       /\ ret'.out = "ok"
       /\ ret'.eq = (end = ret'.arg)
       /\ cin' = cin /\ end' = end]_vars

C9_Witness ==
  /\ ret.op = "eqstops" /\ end.kind = "Count" /\ ret.arg.kind = "Sentinel"
  /\ end.value = ret.arg.value /\ ~ret.eq

\* C10: it == untilEof() and untilEof() == it never throw, whatever the
\* state of the reader and of the stream.
C10_EofCompareNeverThrows ==
  (ret.op = "eq" /\ end.kind = "Eof") => ret.out = "ok"

C10_Witness ==
  /\ ret.op = "eq" /\ end.kind = "Eof" /\ ret.out = "ok"
  /\ cin.failbit /\ ~cin.eofbit /\ ~ret.eq

\* C11: on a source holding at least n >= 1 tokens, sum1 up to untilCount(n)
\* never throws, advances at most n times, adds the tokens in order, and
\* returns with exactly the first n tokens added and their sum as total.
RECURSIVE SeqSum(_)
SeqSum(q) == IF q = <<>> THEN 0 ELSE Head(q) + SeqSum(Tail(q))

C11Case ==
  /\ end.kind = "Count"
  /\ end.value >= 1
  /\ Len(TokenList(src)) >= end.value

C11_CountLoopSumsFirstN ==
  C11Case =>
    /\ pc # "threw"
    /\ calls <= end.value
    /\ IsPrefix(visited, SubSeq(TokenList(src), 1, end.value))
    /\ pc = "done" =>
         /\ visited = SubSeq(TokenList(src), 1, end.value)
         /\ total = SeqSum(SubSeq(TokenList(src), 1, end.value))

C11_Witness == C11Case /\ pc = "done" /\ end.value = 3 /\ total = 4

\* C12: count never decreases; it changes only in ++it and it++, by exactly
\* 1, and only when the value of the position left has been read
\* successfully (the stream has not failed).
C12_CountOnlyAfterValue ==
  [][/\ it'.count >= it.count
     /\ it'.count # it.count =>
          /\ ret'.op \in {"incr", "postincr"}
          /\ it'.count = it.count + 1
          /\ ~cin'.failbit]_vars

\* C13: no operation changes a stopping-condition cursor: comparisons on
\* either side and the throwing *, ++ calls leave its variant and payload.
C13_StopNeverChanges == [][end' = end]_vars

C13_Witness ==
  /\ ret.op = "eq" /\ ret.arg = Rhs /\ end.kind = "Sentinel"
  /\ ret.out = "ok" /\ it.valid /\ it.value = end.value

\* C14: comparing two readers never throws, reads nothing and changes
\* neither; it is true exactly when both are bound to the same stream,
\* whatever their count, valid and value are.
C14_ReadersCompareBySource ==
  [][/\ ret'.op = "eqreaders" =>
          /\ ret'.out = "ok" /\ ret'.eq
          /\ cin' = cin /\ it' = it /\ copy' = copy
     /\ ret'.op \in {"eqother", "eqotherrev"} =>
          /\ ret'.out = "ok"
          /\ ret'.eq = (ret'.arg.kind = "cin")
          /\ cin' = cin /\ it' = it]_vars

C14_Witness ==
  /\ ret.op = "eqreaders" /\ ret.eq
  /\ copy.kind = "InputState" /\ copy.count # it.count /\ copy.valid /\ ~it.valid

\* C15: it == untilEof() (either side) makes exactly one extraction attempt
\* and sets valid when nothing is cached, caching the token read if there is
\* one; it reads nothing when a value is cached.  A cached value is what the
\* next *it returns, with no further read.
C15_EofProbeCaches ==
  [][/\ (ret'.op = "eq" /\ end.kind = "Eof") =>
          /\ it'.valid
          /\ it.valid => cin' = cin /\ it' = it
          /\ ~it.valid =>
               /\ cin'.reads = cin.reads + 1
               /\ ~cin'.failbit => it'.value = Head(TokenList(cin.buf))
     /\ (ret'.op = "deref" /\ it.valid /\ ~cin.failbit) =>
          /\ ret'.out = "ok" /\ ret'.val = it.value
          /\ cin' = cin]_vars

C15_Witness ==
  /\ ret.op = "eq" /\ end.kind = "Eof" /\ ~ret.eq
  /\ it.valid /\ ~cin.failbit /\ cin.reads = it.count + 1
  /\ it.value = Head(TokenList(src))

\* C16: it == untilSentinel(v) throws input failure when the value cannot be
\* read; so on a source that does not hold the sentinel, sum1 against
\* untilSentinel(v) never reports a match, makes at most one advance per
\* token and one more, and always ends by throwing input failure.
C16Case ==
  /\ end.kind = "Sentinel"
  /\ \A i \in 1..Len(TokenList(src)) : TokenList(src)[i] # end.value

C16_SentinelLoopEndsInFailure ==
  /\ [](C16Case =>
          /\ pc # "done"
          /\ calls <= Len(TokenList(src)) + 1
          /\ (ret.op = "neq" /\ cin.failbit) => ret.out = "failure"
          /\ pc = "threw" => ret.out = "failure")
  /\ [](C16Case => <>(pc = "threw"))

C16_Witness ==
  /\ C16Case /\ pc = "threw" /\ ret.op = "neq" /\ ret.out = "failure"
  /\ Len(visited) = 2 /\ calls = 2

\* C17: for a reader that is the only cursor on its source and was never
\* copied, the extraction attempts made on the source number count, plus one
\* when valid is set; while no read has failed the cached value is the
\* token of the reader's position, so no token is skipped or read twice.
C17_ReadsMatchPosition ==
  copy.kind = "None" =>
    /\ cin.reads = it.count + (IF it.valid THEN 1 ELSE 0)
    /\ (it.valid /\ ~cin.failbit) =>
         /\ it.count < Len(TokenList(src))
         /\ it.value = TokenList(src)[it.count + 1]

C17_Witness ==
  /\ copy.kind = "None" /\ it.count = 1 /\ it.valid /\ ~cin.failbit
  /\ cin.reads = 2 /\ it.value = 2 /\ ret.op = "deref"

\* C18: p != untilCount(n) never throws and leaves the stream and the reader
\* alone; so when sum1 against untilCount(n), n >= 1, returns on a source of
\* at least n tokens, exactly n extractions were made and a fresh reader on
\* the same stream yields token n + 1 when there is one.
C18_CountLoopConsumesN ==
  [][(ret'.op = "neq" /\ end.kind = "Count") =>
       /\ ret'.out = "ok"
       /\ cin' = cin /\ it' = it
       /\ (C11Case /\ pc' = "done") =>
            /\ cin'.reads = end.value
            /\ Len(TokenList(src)) > end.value =>
                 /\ Deref(scan("cin"), cin').out = "ok"
                 /\ Deref(scan("cin"), cin').val = TokenList(src)[end.value + 1]]_vars

C18_Witness ==
  /\ C11Case /\ pc = "done" /\ ret.op = "neq" /\ end.value = 2
  /\ Len(TokenList(src)) = 3 /\ cin.reads = 2
  /\ Deref(scan("cin"), cin).val = TokenList(src)[3]

\* C19: it++ on a reader whose stream supplies the value returns a cursor at
\* the old position: old count, valid set, holding the value of that
\* position, so that * on it yields the value and reads nothing; the reader
\* itself has count + 1 and valid cleared.  On a fresh reader *it++ makes
\* exactly one extraction and yields the first token.
C19_PostIncrReturnsOldPosition ==
  [][(ret'.op = "postincr" /\ ret'.out = "ok" /\ ~cin'.failbit) =>
       /\ copy'.kind = "InputState"
       /\ copy'.count = it.count /\ copy'.valid
       /\ it.valid => (copy'.value = it.value /\ cin' = cin)
       /\ it'.count = it.count + 1 /\ ~it'.valid
       /\ Deref(copy', cin') = Result("ok", copy'.value, copy', None, cin')
       /\ cin.reads = 0 =>
            /\ cin'.reads = 1
            /\ copy'.value = Head(TokenList(src))]_vars

C19_Witness ==
  /\ ret.op = "derefcopy" /\ ret.out = "ok" /\ ret.val = Head(TokenList(src))
  /\ copy.count = 0 /\ copy.valid /\ it.count = 1 /\ ~it.valid
  /\ cin.reads = 1 /\ ~cin.failbit

\* C20: for two values a, b of one strong type, a != b is the negation of
\* a == b; and for two stopping-condition cursors x, y, x != y is the
\* negation of x == y evaluated from the same state.
C20_NotEqualNegatesEqual ==
  /\ ret.op = "strongne" => ret.eq = ~StrongEq(end, ret.arg)
  /\ ret.op = "nestops" => ret.eq = ~Eq(end, ret.arg, cin).eq
  /\ ret.op = "nestopsrev" => ret.eq = ~Eq(ret.arg, end, cin).eq

====
